---- MODULE Spec2Model ----
(***************************************************************************)
(* AImee LiveKit voice agent: the backend routing client                   *)
(* (docker/agent/backend_client.py), the utterance router and the session  *)
(* lifecycle of a room (docker/agent/aimee_agent.py).                      *)
(*                                                                         *)
(* Python values are written as follows.  A str is a TLA+ string, except   *)
(* the error text of a BackendResponse, which is the sequence of the       *)
(* pieces an f-string joins (a literal is a sequence of one piece).  An    *)
(* Optional value is a set with at most one element, None being the empty  *)
(* set.  A parsed JSON object is a function whose domain is the set of     *)
(* keys the object holds.                                                  *)
(***************************************************************************)
EXTENDS Integers, Sequences, FiniteSets, TLC

VARIABLES
    \* ---- BackendClient (backend_client.py)
    enabled,        \* self.enabled
    _session,       \* self._session: 0 is None, n > 0 the n-th ClientSession made
    closedSessions, \* the ClientSession objects whose .closed is true
    sessionCloses,  \* how many times ClientSession.close() ran, over all sessions
    requests,       \* how many HTTP requests were issued
    callCount,      \* how many calls of the client's methods were made
    lastCall,       \* the last call of a client method: operation, outcome, result
    \* ---- AImeeAgent (aimee_agent.py): one agent and the turn it is handling
    use_backend_router, \* self.use_backend_router
    StopResponse,       \* the module's StopResponse: TRUE the imported class, FALSE None
    turn,               \* the user turn being handled by on_user_turn_completed
    turns,              \* how many user turns were started
    agent,              \* self.is_reconnection, self._session_started; on_exit calls made
    enters,             \* the invocations of on_enter, in order of their start
    greetings,          \* the calls on_enter made of session.say and session.generate_reply
    \* ---- entrypoint (aimee_agent.py): the rooms of this process
    now,              \* time.time(), in seconds
    _active_sessions, \* the module's dict: room name -> record
    jobs,             \* per entrypoint invocation: its room (ctx.room.name), once it runs
    session_holder,   \* per entrypoint invocation: its session_holder dict
    creations         \* the executions of create_agent_session, in order of their scheduling

clientVars == <<enabled, _session, closedSessions, sessionCloses, requests,
                callCount, lastCall>>

enterVars == <<agent, enters, greetings>>

agentVars == <<use_backend_router, StopResponse, turn, turns, enterVars>>

roomVars == <<now, _active_sessions, jobs, session_holder, creations>>

vars == <<clientVars, agentVars, roomVars>>

\* ------------------------------------------------------------------ bounds

\* Calls of the client's methods in one run of the client specification.
MaxCalls == 3

\* User turns handled by one agent.
MaxTurns == 2

\* Entrypoint invocations (jobs) in the process.
MaxJobs == 2

\* Executions of create_agent_session, over all jobs.
MaxCreations == 3

\* The clock advances in steps of 150 seconds, this many times at most.
MaxTicks == 2

\* Invocations of on_enter on one agent.
MaxEnters == 3

\* Invocations of on_exit.
MaxExits == 2

\* ------------------------------------------------------------ Python values

None == {}
Some(v) == {v}

\* data.get(key, default) of a parsed JSON object.
Get(d, k, default) == IF k \in DOMAIN d THEN d[k] ELSE default

\* ------------------------------------------------- what the backend may do

\* HTTP status codes the backend answers with.
Statuses == {200, 500}

\* str(response.status) as the f-string renders it.
StatusText(s) == CASE s = 200 -> "200" [] s = 500 -> "500"

\* Reply bodies, as text.
BodySuccessFull == "{'success': true, 'agent': 'history', 'response': 'Fort Pulaski was finished in 1847.', 'metadata': {'turn': 1}}"
BodySuccessBare == "{'success': true}"
BodyFailure     == "{'success': false, 'error': 'router crashed'}"
BodyFailureBare == "{'success': false}"
BodyFailureNull == "{'success': false, 'error': null}"
BodyErrorOnly   == "{'error': 'db down'}"
BodyHealthy     == "{'status': 'ok'}"
BodyNotJson     == "<html>Bad Gateway</html>"

RawBodies == {BodySuccessFull, BodySuccessBare, BodyFailure, BodyFailureBare,
              BodyFailureNull, BodyErrorOnly, BodyHealthy, BodyNotJson}

IsJson(raw) == raw # BodyNotJson

\* The JSON literal null as a value of a parsed object.
JsonNull == "null"

\* response.json() of a body that is JSON: the object's keys and values.
Json(raw) ==
    CASE raw = BodySuccessFull ->
           [k \in {"success", "agent", "response", "metadata"} |->
              CASE k = "success"  -> TRUE
                [] k = "agent"    -> "history"
                [] k = "response" -> "Fort Pulaski was finished in 1847."
                [] k = "metadata" -> "{'turn': 1}"]
      [] raw = BodySuccessBare -> [k \in {"success"} |-> TRUE]
      [] raw = BodyFailure ->
           [k \in {"success", "error"} |->
              CASE k = "success" -> FALSE
                [] k = "error"   -> "router crashed"]
      [] raw = BodyFailureBare -> [k \in {"success"} |-> FALSE]
      [] raw = BodyFailureNull ->
           [k \in {"success", "error"} |->
              CASE k = "success" -> FALSE
                [] k = "error"   -> JsonNull]
      [] raw = BodyErrorOnly   -> [k \in {"error"} |-> "db down"]
      [] raw = BodyHealthy     -> [k \in {"status"} |-> "ok"]

\* Exceptions the request can raise: the total timeout expiring, a low-level
\* network fault, and anything else.
Faults == {"asyncio.TimeoutError", "aiohttp.ClientConnectorError", "RuntimeError"}

\* str(e) of each.
ExcText(e) ==
    CASE e = "asyncio.TimeoutError"         -> ""
      [] e = "aiohttp.ClientConnectorError" -> "Cannot connect to host backend:3000"
      [] e = "RuntimeError"                 -> "Session is closed"
      [] e = "json.JSONDecodeError"         -> "Expecting value: line 1 column 1 (char 0)"
      [] OTHER                              -> e

\* What one request meets: a reply (status and body) or an exception.
Reply(s, b) == [kind |-> "reply", status |-> s, body |-> b, exc |-> ""]
Fault(e)    == [kind |-> "fault", status |-> 0, body |-> "", exc |-> e]
NoOutcome   == [kind |-> "none", status |-> 0, body |-> "", exc |-> ""]

Outcomes == {Reply(s, b) : s \in Statuses, b \in RawBodies} \cup {Fault(e) : e \in Faults}

\* The exception, if any, that the body of `async with session.post(...)` raises:
\* the request's own, or response.json() on a status-200 body that is not JSON.
RaisedIn(o) ==
    IF o.kind = "fault" THEN Some(o.exc)
    ELSE IF o.status = 200 /\ ~IsJson(o.body) THEN Some("json.JSONDecodeError")
    ELSE None

\* ------------------------------------------------------------ BackendResponse

BackendResponse(s, a, r, m, e) ==
    [success |-> s, agent |-> a, response |-> r, metadata |-> m, error |-> e]

\* The error field given a value of the parsed body: response.json() has
\* turned null into None, any string is kept.
ErrorField(v) == IF v = JsonNull THEN None ELSE Some(<<v>>)

\* What a call does: return a value or raise.
Return(v) == [kind |-> "return", value |-> v]
Raise(e)  == [kind |-> "raise", exc |-> e]

DisabledResponse ==
    BackendResponse(FALSE, "direct", "", "{}", Some(<<"Backend router is disabled">>))

\* ClassifyReply dropping the body's response text on success.
ClassifyReply_dropsResponse(o) ==
    IF o.status = 200
    THEN LET data == Json(o.body) IN
         IF Get(data, "success", FALSE) = TRUE
         THEN BackendResponse(TRUE, Get(data, "agent", "unknown"), "",
                              Get(data, "metadata", "{}"), None)
         ELSE BackendResponse(FALSE, "error", "", "{}",
                              ErrorField(Get(data, "error", "Unknown backend error")))
    ELSE BackendResponse(FALSE, "error", "", "{}",
                         Some(<<"HTTP ", StatusText(o.status), ": ", o.body>>))

\* The status-200 / other-status classification both chat and arrival make.
ClassifyReply(o) ==
    IF o.status = 200
    THEN LET data == Json(o.body) IN
         IF Get(data, "success", FALSE) = TRUE
         THEN BackendResponse(TRUE, Get(data, "agent", "unknown"),
                              Get(data, "response", ""),
                              Get(data, "metadata", "{}"), None)
         ELSE BackendResponse(FALSE, "error", "", "{}",
                              ErrorField(Get(data, "error", "Unknown backend error")))
    ELSE BackendResponse(FALSE, "error", "", "{}",
                         Some(<<"HTTP ", StatusText(o.status), ": ", o.body>>))

\* self.timeout (BACKEND_TIMEOUT, 10 by default) as the f-string renders it.
TimeoutText == "10"

\* ---------------------------------------------------- exception handling

\* The classes the except clauses of chat name, in order, and of arrival.
ChatHandlers    == <<"aiohttp.ClientTimeout", "aiohttp.ClientError", "Exception">>
ArrivalHandlers == <<"Exception">>

\* aiohttp.ClientTimeout is the timeout configuration _get_session constructs
\* (ClientTimeout(total=...)); it is not an exception class.
IsExceptionClass(c) == c # "aiohttp.ClientTimeout"

\* isinstance(e, c) for the exceptions and classes above.
IsInstance(e, c) ==
    \/ c = "Exception"
    \/ c = e
    \/ c = "aiohttp.ClientError" /\ e = "aiohttp.ClientConnectorError"

\* Python's matching of a raised exception e against except clauses i, i+1, ...:
\* the class of the clause that catches it; "TypeError" when a clause names a
\* class that does not inherit from BaseException (matching against it raises
\* TypeError, which leaves the try statement); "uncaught" when none matches.
RECURSIVE Catch(_, _, _)
Catch(e, handlers, i) ==
    IF i > Len(handlers) THEN "uncaught"
    ELSE IF ~IsExceptionClass(handlers[i]) THEN "TypeError"
    ELSE IF IsInstance(e, handlers[i]) THEN handlers[i]
    ELSE Catch(e, handlers, i + 1)

\* The except clauses of chat.
ChatExcept(e) ==
    LET c == Catch(e, ChatHandlers, 1) IN
    CASE c = "aiohttp.ClientTimeout" ->
           Return(BackendResponse(FALSE, "timeout", "", "{}",
                    Some(<<"Request timeout after ", TimeoutText, "s">>)))
      [] c = "aiohttp.ClientError" ->
           Return(BackendResponse(FALSE, "network_error", "", "{}",
                    Some(<<"Network error: ", ExcText(e)>>)))
      [] c = "Exception" ->
           Return(BackendResponse(FALSE, "unexpected_error", "", "{}",
                    Some(<<"Unexpected error: ", ExcText(e)>>)))
      [] c = "TypeError" -> Raise("TypeError")
      [] OTHER -> Raise(e)

\* The except clause of arrival.
ArrivalExcept(e) ==
    LET c == Catch(e, ArrivalHandlers, 1) IN
    CASE c = "Exception" ->
           Return(BackendResponse(FALSE, "arrival_error", "", "{}",
                    Some(<<"Arrival request error: ", ExcText(e)>>)))
      [] c = "TypeError" -> Raise("TypeError")
      [] OTHER -> Raise(e)

\* ------------------------------------------------------- BackendClient

\* chat without the test of self.enabled.
chat_ignoresEnabled(en, o) ==
    IF RaisedIn(o) = None THEN Return(ClassifyReply(o))
    ELSE ChatExcept(CHOOSE e \in RaisedIn(o) : TRUE)

\* BackendClient.chat: what it returns or raises when the request meets o.
chat(en, o) ==
    IF ~en THEN Return(DisabledResponse)
    ELSE IF RaisedIn(o) = None THEN Return(ClassifyReply(o))
    ELSE ChatExcept(CHOOSE e \in RaisedIn(o) : TRUE)

\* BackendClient.arrival.
arrival(en, o) ==
    IF ~en THEN Return(DisabledResponse)
    ELSE IF RaisedIn(o) = None THEN Return(ClassifyReply(o))
    ELSE ArrivalExcept(CHOOSE e \in RaisedIn(o) : TRUE)

\* BackendClient.health_check: every exception is caught, False is returned.
health_check(o) ==
    IF RaisedIn(o) = None /\ o.status = 200
    THEN Return(Get(Json(o.body), "status", "") = "ok")
    ELSE Return(FALSE)

\* _get_session making a new ClientSession on every call.
_get_session_alwaysNew(sess, closed) == sess + 1

\* BackendClient._get_session: the session in self._session afterwards.
\* A new ClientSession is made when there is none or it is closed.
_get_session(sess, closed) ==
    IF sess = 0 \/ sess \in closed THEN sess + 1 ELSE sess

\* close testing only that a session exists, not that it is still open.
CloseGuard_ignoresClosed(sess, closed) == sess # 0

\* The test BackendClient.close makes before closing the pooled session.
CloseGuard(sess, closed) == sess # 0 /\ sess \notin closed

\* A request that is sent again after the first attempt.
IssueRequest_retried ==
    /\ _session' = _get_session(_session, closedSessions)
    /\ requests' = requests + 2
    /\ UNCHANGED <<closedSessions, sessionCloses>>

\* The state change of one request: the pooled session is obtained and one
\* HTTP request is issued on it.
IssueRequest ==
    /\ _session' = _get_session(_session, closedSessions)
    /\ requests' = requests + 1
    /\ UNCHANGED <<closedSessions, sessionCloses>>

NoRequest == UNCHANGED <<_session, closedSessions, sessionCloses, requests>>

Called(op, o, res) ==
    /\ lastCall' = [op |-> op, prev |-> lastCall.op, outcome |-> o, result |-> res]
    /\ callCount' = callCount + 1

\* await backend_client.chat(...) meeting outcome o.
ChatCall(o) ==
    /\ IF enabled THEN IssueRequest ELSE NoRequest
    /\ Called("chat", IF enabled THEN o ELSE NoOutcome, chat(enabled, o))
    /\ UNCHANGED enabled

\* await backend_client.arrival(...) meeting outcome o.
ArrivalCall(o) ==
    /\ IF enabled THEN IssueRequest ELSE NoRequest
    /\ Called("arrival", IF enabled THEN o ELSE NoOutcome, arrival(enabled, o))
    /\ UNCHANGED enabled

\* await backend_client.health_check() meeting outcome o.
HealthCheckCall(o) ==
    /\ IssueRequest
    /\ Called("health_check", o, health_check(o))
    /\ UNCHANGED enabled

\* await backend_client.close().
CloseCall ==
    /\ IF CloseGuard(_session, closedSessions)
       THEN /\ closedSessions' = closedSessions \cup {_session}
            /\ sessionCloses' = sessionCloses + 1
       ELSE UNCHANGED <<closedSessions, sessionCloses>>
    /\ Called("close", NoOutcome, Return(None))
    /\ UNCHANGED <<enabled, _session, requests>>

\* ------------------------------------------- the client driven by a caller

Chat ==
    /\ callCount < MaxCalls
    /\ \E o \in Outcomes : ChatCall(o)
    /\ UNCHANGED <<agentVars, roomVars>>

Arrival ==
    /\ callCount < MaxCalls
    /\ \E o \in Outcomes : ArrivalCall(o)
    /\ UNCHANGED <<agentVars, roomVars>>

HealthCheck ==
    /\ callCount < MaxCalls
    /\ \E o \in Outcomes : HealthCheckCall(o)
    /\ UNCHANGED <<agentVars, roomVars>>

Close ==
    /\ callCount < MaxCalls
    /\ CloseCall
    /\ UNCHANGED <<agentVars, roomVars>>

\* BackendClient.__init__: USE_BACKEND_ROUTER decides enabled; no session yet.
ClientInit ==
    /\ enabled \in BOOLEAN
    /\ _session = 0
    /\ closedSessions = {}
    /\ sessionCloses = 0
    /\ requests = 0
    /\ callCount = 0
    /\ lastCall = [op |-> "none", prev |-> "none", outcome |-> NoOutcome,
                   result |-> Return(None)]

\* ------------------------------------------------------------ AImeeAgent

\* What users say.
Utterances == {"Where am I?", "Tell me about this fort."}

\* A turn: where on_user_turn_completed stands (pc), new_message.text_content
\* (text), what the awaited backend_client.chat did (backend, None before it
\* returns), the texts session.say spoke, and how on_user_turn_completed ended
\* (outcome: "return", or the exception raised).  The counters are of the calls
\* made during the turn.
NoTurn ==
    [pc |-> "idle", text |-> "", user_input |-> "", backend |-> None,
     sayCalls |-> 0, spoken |-> <<>>, generateReplyCalls |-> 0,
     superCalls |-> 0, defaultReplies |-> 0, outcome |-> "none"]

\* AImeeAgent.__init__, with the module-level import of StopResponse.
AgentInit ==
    /\ use_backend_router \in BOOLEAN
    /\ StopResponse \in BOOLEAN
    /\ turn = NoTurn
    /\ turns = 0
    /\ \E r \in BOOLEAN :
         agent = [is_reconnection |-> r, _session_started |-> FALSE, exits |-> 0]
    /\ enters = <<>>
    /\ greetings = <<>>

\* No agent runs.
AgentAbsent ==
    /\ use_backend_router = FALSE
    /\ StopResponse = TRUE
    /\ turn = NoTurn
    /\ turns = 0
    /\ agent = [is_reconnection |-> FALSE, _session_started |-> FALSE, exits |-> 0]
    /\ enters = <<>>
    /\ greetings = <<>>

\* on_user_turn_completed after _handle_backend_speech returned True, left by
\* a bare return without blanking the text.
Suppress_plainReturn(t) == [t EXCEPT !.pc = "returned", !.outcome = "return"]

\* on_user_turn_completed after _handle_backend_speech returned True: raise
\* StopResponse when the class was imported, otherwise blank the message text
\* and return.
Suppress(t) ==
    IF StopResponse
    THEN [t EXCEPT !.pc = "returned", !.outcome = "StopResponse"]
    ELSE [t EXCEPT !.pc = "returned", !.outcome = "return", !.text = ""]

\* on_user_turn_completed after _handle_backend_speech returned False: the
\* call of session.generate_reply(), awaited.
Fallback(t) ==
    [t EXCEPT !.pc = "generate_reply", !.generateReplyCalls = @ + 1]

\* _handle_backend_speech letting an exception of its try block leave it.
BackendSpeechExcept_propagates(t, e) == [t EXCEPT !.pc = "returned", !.outcome = e]

\* _handle_backend_speech when its try block raises e: except Exception logs
\* it and returns False, which leads on_user_turn_completed to the fallback.
BackendSpeechExcept(t, e) == Fallback(t)

\* on_user_turn_completed taking the backend path whatever use_backend_router is.
StartTurn_alwaysBackend(u, router) ==
    [NoTurn EXCEPT !.text = u, !.user_input = u, !.pc = "chat"]

\* on_user_turn_completed up to its first await, for the text u: with routing
\* on, backend_client.chat in _handle_backend_speech; with routing off, the
\* base class's on_user_turn_completed.
StartTurn(u, router) ==
    [NoTurn EXCEPT !.text = u, !.user_input = u,
                   !.pc = IF router THEN "chat" ELSE "super",
                   !.superCalls = IF router THEN 0 ELSE 1]

\* The session calls on_user_turn_completed with the recognised text; the
\* handler runs to its first await: backend_client.chat in
\* _handle_backend_speech, or the base class's on_user_turn_completed.
UserTurnCompleted ==
    /\ turn.pc \in {"idle", "done"}
    /\ turns < MaxTurns
    /\ \E u \in Utterances : turn' = StartTurn(u, use_backend_router)
    /\ turns' = turns + 1
    /\ UNCHANGED <<clientVars, use_backend_router, StopResponse, enterVars, roomVars>>

\* backend_client.chat returns or raises in _handle_backend_speech.  A
\* success leads to the call of session.say; a failed response or an
\* exception (caught by except Exception) makes _handle_backend_speech return
\* False.
ChatReturns ==
    /\ turn.pc = "chat"
    /\ \E o \in Outcomes :
         /\ ChatCall(o)
         /\ LET res == chat(enabled, o)
                t   == [turn EXCEPT !.backend = Some(res)] IN
            turn' = IF res.kind = "raise"
                    THEN BackendSpeechExcept(t, res.exc)
                    ELSE IF res.value.success
                    THEN [t EXCEPT !.pc = "say", !.sayCalls = @ + 1]
                    ELSE Fallback(t)
    /\ UNCHANGED <<use_backend_router, StopResponse, turns, enterVars, roomVars>>

\* The awaited session.say returns, having spoken the backend's text, or
\* raises, which except Exception turns into a return of False.
SayReturns ==
    /\ turn.pc = "say"
    /\ LET res == CHOOSE r \in turn.backend : TRUE IN
       \E raises \in BOOLEAN :
         turn' = IF raises
                 THEN BackendSpeechExcept(turn, "RuntimeError")
                 ELSE Suppress([turn EXCEPT !.spoken = Append(@, res.value.response)])
    /\ UNCHANGED <<clientVars, use_backend_router, StopResponse, turns, enterVars, roomVars>>

\* The awaited session.generate_reply() returns; on_user_turn_completed
\* returns.
GenerateReplyReturns ==
    /\ turn.pc = "generate_reply"
    /\ turn' = [turn EXCEPT !.pc = "returned", !.outcome = "return"]
    /\ UNCHANGED <<clientVars, use_backend_router, StopResponse, turns, enterVars, roomVars>>

\* The base class's on_user_turn_completed returns; so does the override.
SuperReturns ==
    /\ turn.pc = "super"
    /\ turn' = [turn EXCEPT !.pc = "returned", !.outcome = "return"]
    /\ UNCHANGED <<clientVars, use_backend_router, StopResponse, turns, enterVars, roomVars>>

\* The session after on_user_turn_completed: it continues with the standard
\* LLM processing of the message, unless StopResponse was raised or the
\* message text was cleared.
DefaultTurnHandling ==
    /\ turn.pc = "returned"
    /\ turn' = [turn EXCEPT !.pc = "done",
                            !.defaultReplies =
                               IF turn.outcome = "return" /\ turn.text # ""
                               THEN @ + 1 ELSE @]
    /\ UNCHANGED <<clientVars, use_backend_router, StopResponse, turns, enterVars, roomVars>>

\* ------------------------------------------------------- on_enter

\* The system message on_enter sends to the backend as user_input.
GreetingSystemMessage(is_reconnection) ==
    IF is_reconnection
    THEN "[SYSTEM: The user has just reconnected after briefly leaving. Welcome them back warmly. If you know their name, use it. Keep it brief - just acknowledge you're glad they're back and ask how you can help.]"
    ELSE "[SYSTEM: This is a new session. Check if the user has a stored name and greet accordingly. If no name is stored, ask for their name. If a name is stored, greet them by name.]"

\* GreetingInstructions with the two canned instructions exchanged.
GreetingInstructions_swapped(is_reconnection) ==
    IF is_reconnection
    THEN "Greet the user warmly and let them know you're AImee, their AI tour guide assistant, ready to help with location information and travel guidance. Ask what you should call them."
    ELSE "Welcome the user back briefly. They just reconnected after a brief interruption. Ask how you can help them."

\* The instructions of the fallback greeting's session.generate_reply.
GreetingInstructions(is_reconnection) ==
    IF is_reconnection
    THEN "Welcome the user back briefly. They just reconnected after a brief interruption. Ask how you can help them."
    ELSE "Greet the user warmly and let them know you're AImee, their AI tour guide assistant, ready to help with location information and travel guidance. Ask what you should call them."

\* One invocation of on_enter: where it stands (pc: "sleep", "chat", "say",
\* "generate_reply", "done"), the system message it sent to the backend, what
\* the awaited backend_client.chat did, whether the awaited session.say raised,
\* and how the invocation ended.
Enter(pc) ==
    [pc |-> pc, system_message |-> "", backend |-> None, say_raised |-> FALSE,
     outcome |-> "none"]

\* One call on_enter makes of the session: by which invocation, which method,
\* and its text (the text to say, or the instructions).
Greeting(i, call, arg) == [by |-> i, call |-> call, arg |-> arg]

\* The one-shot test without the flag.
AlreadyStarted_never(a) == FALSE

\* The one-shot test at the top of on_enter.
AlreadyStarted(a) == a._session_started

\* The fallback at the end of on_enter: session.generate_reply with the canned
\* instructions is called and awaited.  es is enters as the invocation leaves it.
GreetLocally(i, es) ==
    /\ enters' = [es EXCEPT ![i].pc = "generate_reply"]
    /\ greetings' = Append(greetings,
                           Greeting(i, "generate_reply",
                                    GreetingInstructions(agent.is_reconnection)))

\* The session calls on_enter: the invocation returns at once when the flag is
\* set, and otherwise sets it and runs to its first await, asyncio.sleep(2.0).
OnEnter ==
    /\ Len(enters) < MaxEnters
    /\ IF AlreadyStarted(agent)
       THEN /\ enters' = Append(enters, [Enter("done") EXCEPT !.outcome = "return"])
            /\ UNCHANGED agent
       ELSE /\ agent' = [agent EXCEPT !._session_started = TRUE]
            /\ enters' = Append(enters, Enter("sleep"))
    /\ UNCHANGED <<greetings, clientVars, use_backend_router, StopResponse,
                   turn, turns, roomVars>>

\* asyncio.sleep returns in invocation i: with routing on, the system message
\* is chosen and backend_client.chat is called; with routing off, the fallback.
SleepReturns(i) ==
    /\ enters[i].pc = "sleep"
    /\ IF use_backend_router
       THEN /\ enters' = [enters EXCEPT
                            ![i].pc = "chat",
                            ![i].system_message =
                               GreetingSystemMessage(agent.is_reconnection)]
            /\ UNCHANGED greetings
       ELSE GreetLocally(i, enters)
    /\ UNCHANGED <<agent, clientVars, use_backend_router, StopResponse,
                   turn, turns, roomVars>>

\* backend_client.chat returns or raises in invocation i.  A success leads to
\* the call of session.say; a failed response is logged and an exception is
\* caught by except Exception, and both lead to the fallback.
GreetingChatReturns(i) ==
    /\ enters[i].pc = "chat"
    /\ \E o \in Outcomes :
         /\ ChatCall(o)
         /\ LET res == chat(enabled, o)
                es  == [enters EXCEPT ![i].backend = Some(res)] IN
            IF res.kind = "return" /\ res.value.success
            THEN /\ enters' = [es EXCEPT ![i].pc = "say"]
                 /\ greetings' = Append(greetings,
                                        Greeting(i, "say", res.value.response))
            ELSE GreetLocally(i, es)
    /\ UNCHANGED <<agent, use_backend_router, StopResponse, turn, turns, roomVars>>

\* The awaited session.say returns in invocation i, and on_enter returns; or
\* it raises inside the try, and except Exception leads to the fallback.
GreetingSayReturns(i) ==
    /\ enters[i].pc = "say"
    /\ \E raises \in BOOLEAN :
         IF raises
         THEN GreetLocally(i, [enters EXCEPT ![i].say_raised = TRUE])
         ELSE /\ enters' = [enters EXCEPT ![i].pc = "done", ![i].outcome = "return"]
              /\ UNCHANGED greetings
    /\ UNCHANGED <<agent, clientVars, use_backend_router, StopResponse,
                   turn, turns, roomVars>>

\* The awaited session.generate_reply returns in invocation i; on_enter returns.
GreetingReplyReturns(i) ==
    /\ enters[i].pc = "generate_reply"
    /\ enters' = [enters EXCEPT ![i].pc = "done", ![i].outcome = "return"]
    /\ UNCHANGED <<agent, greetings, clientVars, use_backend_router, StopResponse,
                   turn, turns, roomVars>>

\* -------------------------------------------------------- on_exit

\* on_exit without its call of backend_client.close().
ExitClose_skipped == UNCHANGED clientVars

\* The awaited backend_client.close() of on_exit.
ExitClose == CloseCall

\* The session calls on_exit: the exit is logged and the process-wide client
\* is closed.
OnExit ==
    /\ agent.exits < MaxExits
    /\ agent' = [agent EXCEPT !.exits = @ + 1]
    /\ ExitClose
    /\ UNCHANGED <<use_backend_router, StopResponse, turn, turns, enters,
                   greetings, roomVars>>

\* ------------------------------------------------------------ entrypoint

\* ctx.room.name: the room of ROOM_NAME's default.
Rooms == {"aimee-phase1"}

\* config["participant_identity"] and a user's identity.
AgentIdentity == "aimee-agent"
Identities == {AgentIdentity, "voice-user"}

Jobs == 1..MaxJobs

\* Seconds within which a new job in a room counts as a reconnection.
ReconnectWindow == 300

\* IsReconnection with the window's end counted in.
IsReconnection_inclusive(sessions, room, t) ==
    IF room \in DOMAIN sessions
    THEN (t - sessions[room].last_seen) <= ReconnectWindow
    ELSE FALSE

\* The test entrypoint makes of the room's record at time t.
IsReconnection(sessions, room, t) ==
    IF room \in DOMAIN sessions
    THEN (t - sessions[room].last_seen) < ReconnectWindow
    ELSE FALSE

\* The record with a last_seen that is not the join's time.
NewRecord_staleLastSeen(t) ==
    [started |-> t, last_seen |-> 0, participant_connected |-> FALSE]

\* The record entrypoint writes for its room at time t.
NewRecord(t) == [started |-> t, last_seen |-> t, participant_connected |-> FALSE]

\* An assignment that does not reach the dict.
DictSet_lost(d, k, v) == d

\* d[k] = v of a Python dict.
DictSet(d, k, v) == [x \in DOMAIN d \cup {k} |-> IF x = k THEN v ELSE d[x]]

NoJob == [st |-> "pending", room |-> "", is_reconnection |-> FALSE]

EmptyHolder == [session |-> 0, active |-> FALSE, had_active_session |-> FALSE]

\* One execution of create_agent_session for job j.  pc: "scheduled" (a task
\* made by asyncio.create_task that has not run yet), "start" (suspended in
\* await new_session.start), "done".  is_reconnect is the argument, which the
\* new agent keeps as is_reconnection.  The session made is named by the place
\* of the execution in creations.  sinceDisconnect records the order of
\* events: it is true for an execution scheduled by a connect event, until the
\* job's next disconnect event.
Creation(j, origin, pc, is_reconnect) ==
    [job |-> j, origin |-> origin, pc |-> pc, is_reconnect |-> is_reconnect,
     sinceDisconnect |-> (origin = "connect")]

\* create_agent_session leaving the session marked inactive.
HolderAfterCreate_inactive(id) ==
    [session |-> id, active |-> FALSE, had_active_session |-> TRUE]

\* create_agent_session storing the session and the active flag only.
HolderAfterCreate_partial(id) ==
    [session |-> id, active |-> TRUE, had_active_session |-> FALSE]

\* create_agent_session up to its await: the new session and agent are made
\* and session_holder is updated.
HolderAfterCreate(id) ==
    [session |-> id, active |-> TRUE, had_active_session |-> TRUE]

RoomInit ==
    /\ now = 0
    /\ _active_sessions = [r \in {} |-> 0]
    /\ jobs = [j \in Jobs |-> NoJob]
    /\ session_holder = [j \in Jobs |-> EmptyHolder]
    /\ creations = <<>>

RoomAbsent == RoomInit

\* Time passes.
Tick ==
    /\ now < MaxTicks * 150
    /\ now' = now + 150
    /\ UNCHANGED <<_active_sessions, jobs, session_holder, creations>>
    /\ UNCHANGED <<clientVars, agentVars>>

\* entrypoint(ctx) for a room, run to its first await, which is
\* new_session.start inside the initial create_agent_session: the join is
\* classified, the room's record overwritten, session_holder made, the two
\* handlers registered and the initial session created.  Jobs are numbered in
\* the order they start.
Entrypoint(j, room) ==
    /\ jobs[j].st = "pending"
    /\ \A k \in Jobs : k < j => jobs[k].st = "running"
    /\ Len(creations) < MaxCreations
    /\ LET is_reconnection == IsReconnection(_active_sessions, room, now) IN
       /\ jobs' = [jobs EXCEPT ![j] = [st |-> "running", room |-> room,
                                       is_reconnection |-> is_reconnection]]
       /\ creations' = Append(creations,
                              Creation(j, "entrypoint", "start", is_reconnection))
    /\ _active_sessions' = DictSet(_active_sessions, room, NewRecord(now))
    /\ session_holder' = [session_holder EXCEPT ![j] = HolderAfterCreate(Len(creations) + 1)]
    /\ UNCHANGED <<now, clientVars, agentVars>>

\* The identity filter letting every identity through.
PassesFilter_everyone(identity) == TRUE

\* The test both handlers make of participant.identity.
PassesFilter(identity) == identity # AgentIdentity

\* The connect handler scheduling a session whatever session_holder says.
ShouldReconnect_always(holder) == TRUE

\* The test on_participant_connected makes before scheduling a new session.
ShouldReconnect(holder) == ~holder.active /\ holder.had_active_session

\* The disconnect handler forgetting that the job had a session.
HolderAfterDisconnect_forgets(holder) ==
    [holder EXCEPT !.active = FALSE, !.had_active_session = FALSE]

\* session_holder as on_participant_disconnected leaves it.
HolderAfterDisconnect(holder) == [holder EXCEPT !.active = FALSE]

\* The argument on_participant_connected passes to create_agent_session, the
\* record's last_seen being `seen` when the event arrives at time t.
ReconnectArgument(seen, t) == TRUE

\* on_participant_connected(participant) of job j.
ParticipantConnected(j, identity) ==
    /\ jobs[j].st = "running"
    /\ IF PassesFilter(identity)
       THEN LET room == jobs[j].room
                rec  == _active_sessions[room] IN
            /\ _active_sessions' =
                 [_active_sessions EXCEPT ![room] =
                    [rec EXCEPT !.last_seen = now, !.participant_connected = TRUE]]
            /\ IF ShouldReconnect(session_holder[j])
               THEN /\ Len(creations) < MaxCreations
                    /\ creations' =
                         Append(creations,
                                Creation(j, "connect", "scheduled",
                                         ReconnectArgument(rec.last_seen, now)))
               ELSE UNCHANGED creations
       ELSE UNCHANGED <<_active_sessions, creations>>
    /\ UNCHANGED <<now, jobs, session_holder, clientVars, agentVars>>

\* on_participant_disconnected(participant) of job j.
ParticipantDisconnected(j, identity) ==
    /\ jobs[j].st = "running"
    /\ creations' = [i \in DOMAIN creations |->
                       IF creations[i].job = j
                       THEN [creations[i] EXCEPT !.sinceDisconnect = FALSE]
                       ELSE creations[i]]
    /\ IF PassesFilter(identity)
       THEN LET room == jobs[j].room IN
            /\ _active_sessions' =
                 [_active_sessions EXCEPT ![room] =
                    [@ EXCEPT !.last_seen = now, !.participant_connected = FALSE]]
            /\ session_holder' =
                 [session_holder EXCEPT ![j] = HolderAfterDisconnect(@)]
       ELSE UNCHANGED <<_active_sessions, session_holder>>
    /\ UNCHANGED <<now, jobs, clientVars, agentVars>>

\* The event loop runs a task made by asyncio.create_task: create_agent_session
\* runs to its await of new_session.start.
CreationTaskRuns(i) ==
    /\ creations[i].pc = "scheduled"
    /\ creations' = [creations EXCEPT ![i].pc = "start"]
    /\ session_holder' = [session_holder EXCEPT ![creations[i].job] = HolderAfterCreate(i)]
    /\ UNCHANGED <<now, _active_sessions, jobs, clientVars, agentVars>>

\* new_session.start returns; create_agent_session logs and returns.
SessionStarted(i) ==
    /\ creations[i].pc = "start"
    /\ creations' = [creations EXCEPT ![i].pc = "done"]
    /\ UNCHANGED <<now, _active_sessions, jobs, session_holder, clientVars, agentVars>>

\* ------------------------------------------------------ specifications

\* The client alone, its methods called in any order.
InitClient == ClientInit /\ AgentAbsent /\ RoomAbsent

NextClient == Chat \/ Arrival \/ HealthCheck \/ Close

SpecClient == InitClient /\ [][NextClient]_vars

\* One agent handling user turns, with the process-wide client.
InitTurn == ClientInit /\ AgentInit /\ RoomAbsent /\ enabled = use_backend_router

NextTurn ==
    \/ UserTurnCompleted
    \/ ChatReturns
    \/ SayReturns
    \/ GenerateReplyReturns
    \/ SuperReturns
    \/ DefaultTurnHandling

SpecTurn == InitTurn /\ [][NextTurn]_vars

\* One agent entered by its session, any number of times, with the
\* process-wide client.
InitEnter == ClientInit /\ AgentInit /\ RoomAbsent /\ enabled = use_backend_router

AfterSleep         == \E i \in DOMAIN enters : SleepReturns(i)
AfterGreetingChat  == \E i \in DOMAIN enters : GreetingChatReturns(i)
AfterGreetingSay   == \E i \in DOMAIN enters : GreetingSayReturns(i)
AfterGreetingReply == \E i \in DOMAIN enters : GreetingReplyReturns(i)

NextEnter ==
    \/ OnEnter
    \/ AfterSleep
    \/ AfterGreetingChat
    \/ AfterGreetingSay
    \/ AfterGreetingReply

SpecEnter == InitEnter /\ [][NextEnter]_vars

\* One agent, entered by its session and handling user turns.
InitAgent == InitTurn

NextAgent ==
    \/ UserTurnCompleted
    \/ ChatReturns
    \/ SayReturns
    \/ GenerateReplyReturns
    \/ SuperReturns
    \/ DefaultTurnHandling
    \/ OnEnter
    \/ AfterSleep
    \/ AfterGreetingChat
    \/ AfterGreetingSay
    \/ AfterGreetingReply

SpecAgent == InitAgent /\ [][NextAgent]_vars

\* One agent handling user turns and being exited by its session, at any
\* point and more than once.
NextExit ==
    \/ UserTurnCompleted
    \/ ChatReturns
    \/ SayReturns
    \/ GenerateReplyReturns
    \/ SuperReturns
    \/ DefaultTurnHandling
    \/ OnExit

SpecExit == InitTurn /\ [][NextExit]_vars

\* The jobs of the process: entrypoint invocations, the participant events of
\* their rooms, the session creations they schedule, and the clock.
InitRoom == ClientInit /\ AgentAbsent /\ RoomInit /\ enabled = FALSE

EntrypointRuns == \E j \in Jobs, room \in Rooms : Entrypoint(j, room)
Connected      == \E j \in Jobs, id \in Identities : ParticipantConnected(j, id)
Disconnected   == \E j \in Jobs, id \in Identities : ParticipantDisconnected(j, id)
TaskRuns       == \E i \in DOMAIN creations : CreationTaskRuns(i)
StartReturns   == \E i \in DOMAIN creations : SessionStarted(i)

NextRoom ==
    \/ Tick
    \/ EntrypointRuns
    \/ Connected
    \/ Disconnected
    \/ TaskRuns
    \/ StartReturns

SpecRoom == InitRoom /\ [][NextRoom]_vars

\* The event loop runs every task made by asyncio.create_task, and every
\* awaited new_session.start returns.
FairRoom ==
    \A i \in 1..MaxCreations :
        /\ WF_vars(i \in DOMAIN creations /\ CreationTaskRuns(i))
        /\ WF_vars(i \in DOMAIN creations /\ SessionStarted(i))

\* One job: entrypoint invoked once for the room, the participant events its
\* handlers process, the session creations it schedules, and the clock.  In
\* SpecJobFair the event loop and the session's start are as FairRoom says.
FirstEntrypoint == \E room \in Rooms : Entrypoint(1, room)

NextJob ==
    \/ Tick
    \/ FirstEntrypoint
    \/ Connected
    \/ Disconnected
    \/ TaskRuns
    \/ StartReturns

SpecJob == InitRoom /\ [][NextJob]_vars

SpecJobFair == SpecJob /\ FairRoom

\* ============================================================== claims

\* A call of a client method was made in this step.
CallMade == callCount' # callCount

\* Local replies generated in the turn: by session.generate_reply() and by the
\* session's own handling of the turn.
LocalReplies == turn.generateReplyCalls + turn.defaultReplies

C2_FailOpenExactlyOnce ==
    \A r \in turn.backend :
        (/\ turn.pc = "done" /\ use_backend_router
         /\ r.kind = "return" /\ ~r.value.success) =>
            /\ LocalReplies = 1
            /\ turn.sayCalls = 0
            /\ turn.spoken = <<>>

\* The join of a room now is less than 300 seconds after the room's last
\* recorded activity.
JoinWithinWindow(room) ==
    /\ room \in DOMAIN _active_sessions
    /\ now - _active_sessions[room].last_seen < 300

\* C3: two participant-connected events with no participant-disconnected event
\* between them lead to at most one execution of create_agent_session, also
\* when the second event is processed before the task the first one scheduled
\* has run.
C3_NoDoubleCreation ==
    \A i, k \in DOMAIN creations :
        (/\ i # k
         /\ creations[i].job = creations[k].job
         /\ creations[i].sinceDisconnect /\ creations[k].sinceDisconnect)
        => (creations[i].pc = "scheduled" \/ creations[k].pc = "scheduled")

\* C4: entrypoint classifies a join as a reconnection exactly when the room has
\* a record and less than 300 seconds passed since its last_seen; with no
\* record, and at exactly 300 seconds, the join is new.
C4_EntrypointClassification ==
    [][\A j \in Jobs :
         (jobs[j].st = "pending" /\ jobs'[j].st = "running") =>
            LET room == jobs'[j].room IN
            /\ jobs'[j].is_reconnection = JoinWithinWindow(room)
            /\ room \notin DOMAIN _active_sessions => ~jobs'[j].is_reconnection
            /\ (/\ room \in DOMAIN _active_sessions
                /\ now - _active_sessions[room].last_seen = 300)
               => ~jobs'[j].is_reconnection]_vars

\* A second job joined a room exactly 300 seconds after the room's last
\* activity and was classified new.
C4_Witness ==
    /\ jobs[1].st = "running" /\ jobs[2].st = "running"
    /\ jobs[1].room = jobs[2].room
    /\ _active_sessions[jobs[2].room].started = 300
    /\ ~jobs[2].is_reconnection

\* C5: every execution of create_agent_session, from entrypoint or from the
\* connect handler, gets is_reconnect true exactly when the join came less
\* than 300 seconds after the room's last recorded activity.
C5_EveryJoinReevaluates ==
    [][Len(creations') > Len(creations) =>
         LET c == creations'[Len(creations')] IN
         c.is_reconnect = JoinWithinWindow(jobs'[c.job].room)]_vars

\* C6: no two executions of create_agent_session of one room are suspended in
\* new_session.start at the same time (stated for the executions that one
\* entrypoint invocation of the room makes).
C6_OneCreationInFlight ==
    \A i, k \in DOMAIN creations :
        (i # k /\ creations[i].job = creations[k].job)
        => ~(creations[i].pc = "start" /\ creations[k].pc = "start")

\* C7: with routing enabled, chat never raises and returns success=false tagged
\* "timeout" when the request times out, "network_error" on a low-level network
\* fault and "unexpected_error" on any other exception.
C7_FailureTags ==
    (lastCall.op = "chat" /\ enabled /\ RaisedIn(lastCall.outcome) # None) =>
        /\ lastCall.result.kind = "return"
        /\ lastCall.result.value.success = FALSE
        /\ lastCall.result.value.agent =
             (LET e == CHOOSE x \in RaisedIn(lastCall.outcome) : TRUE IN
              CASE e = "asyncio.TimeoutError" -> "timeout"
                [] e = "aiohttp.ClientConnectorError" -> "network_error"
                [] OTHER -> "unexpected_error")

\* The reply of the last chat call has a JSON body holding the key "success".
ChatGotBodyWithSuccess ==
    /\ lastCall.op = "chat" /\ enabled
    /\ lastCall.outcome.kind = "reply" /\ lastCall.outcome.status = 200
    /\ IsJson(lastCall.outcome.body)
    /\ "success" \in DOMAIN Json(lastCall.outcome.body)

\* C8: with routing enabled, a status-200 reply whose body has success true
\* gives success=true with the body's agent, response and metadata passed
\* through; a status-200 reply whose body has success false gives
\* success=false, agent "error" and the body's error string; any other status
\* gives success=false, agent "error", error "HTTP <status>: <body>"; every
\* failure has an empty response.
C8_HttpClassification ==
    /\ ChatGotBodyWithSuccess =>
         LET data == Json(lastCall.outcome.body)
             r == lastCall.result.value IN
         /\ lastCall.result.kind = "return"
         /\ r.success = data["success"]
         /\ data["success"] =>
              /\ \A k \in {"agent", "response", "metadata"} \cap DOMAIN data : r[k] = data[k]
              /\ r.error = None
         /\ ~data["success"] =>
              /\ r.agent = "error"
              /\ r.response = ""
              /\ ("error" \in DOMAIN data /\ data["error"] # JsonNull) =>
                   r.error = Some(<<data["error"]>>)
    /\ (/\ lastCall.op = "chat" /\ enabled
        /\ lastCall.outcome.kind = "reply" /\ lastCall.outcome.status # 200) =>
         /\ lastCall.result.kind = "return"
         /\ lastCall.result.value.success = FALSE
         /\ lastCall.result.value.agent = "error"
         /\ lastCall.result.value.response = ""
         /\ lastCall.result.value.error =
              Some(<<"HTTP ", StatusText(lastCall.outcome.status), ": ",
                     lastCall.outcome.body>>)

\* A chat call met a status-200 success body and passed its text through.
C8_Witness ==
    /\ lastCall.op = "chat" /\ enabled
    /\ lastCall.outcome = Reply(200, BodySuccessFull)
    /\ lastCall.result.kind = "return"
    /\ lastCall.result.value.response = "Fort Pulaski was finished in 1847."

\* C9: with routing disabled, every chat and arrival call returns success=false,
\* agent "direct" and the disabled error, issues no request and leaves the
\* pooled session as it was.
C9_DisabledShortCircuit ==
    [][(CallMade /\ ~enabled /\ lastCall'.op \in {"chat", "arrival"}) =>
         /\ lastCall'.result.kind = "return"
         /\ lastCall'.result.value.success = FALSE
         /\ lastCall'.result.value.agent = "direct"
         /\ lastCall'.result.value.response = ""
         /\ lastCall'.result.value.error = Some(<<"Backend router is disabled">>)
         /\ requests' = requests
         /\ _session' = _session
         /\ closedSessions' = closedSessions
         /\ sessionCloses' = sessionCloses]_vars

\* A disabled client answered an arrival call while a pooled session, opened
\* by an earlier health check, was open.
C9_Witness ==
    /\ ~enabled
    /\ lastCall.op = "arrival"
    /\ lastCall.result.value.agent = "direct"
    /\ _session # 0 /\ _session \notin closedSessions
    /\ requests = 1

\* C10: close raises nothing, on a client whose session was never opened and
\* when repeated; a close that directly follows a close changes nothing, and
\* no session is ever closed twice.
C10_IdempotentClose ==
    [][(CallMade /\ lastCall'.op = "close") =>
         /\ lastCall'.result = Return(None)
         /\ sessionCloses' = Cardinality(closedSessions')
         /\ (_session = 0 \/ lastCall.op = "close") =>
              /\ _session' = _session
              /\ closedSessions' = closedSessions
              /\ sessionCloses' = sessionCloses]_vars

\* An open session was closed and close was called a second time.
C10_Witness ==
    /\ lastCall.op = "close"
    /\ lastCall.prev = "close"
    /\ _session = 1
    /\ closedSessions = {1}
    /\ sessionCloses = 1

\* The calls of `call` among the greeting calls made so far.
GreetingCalls(call) == {n \in DOMAIN greetings : greetings[n].call = call}

\* C11 as claimed: however often on_enter is invoked, at most one greeting call
\* (session.say or session.generate_reply) is made, by the first invocation,
\* and exactly one once the first invocation has returned.
C11_AsClaimed ==
    /\ Len(greetings) <= 1
    /\ \A n \in DOMAIN greetings : greetings[n].by = 1
    /\ (enters # <<>> /\ enters[1].pc = "done") => Len(greetings) = 1

\* C11, amended: every greeting call is made by the first invocation of
\* on_enter, and every later invocation returns at once without speaking; the
\* first invocation makes one greeting call, except that when its awaited
\* session.say raises it makes one session.generate_reply call after it.
C11_GreetingOnce ==
    /\ \A n \in DOMAIN greetings : greetings[n].by = 1
    /\ \A i \in DOMAIN enters :
         i > 1 => (enters[i].pc = "done" /\ enters[i].outcome = "return"
                   /\ enters[i].backend = None)
    /\ Cardinality(GreetingCalls("say")) <= 1
    /\ Cardinality(GreetingCalls("generate_reply")) <= 1
    /\ Len(greetings) = 2 => (enters[1].say_raised /\ greetings[1].call = "say")
    /\ (enters # <<>> /\ enters[1].pc = "done") => Len(greetings) >= 1

\* Two more invocations of on_enter returned while the first was suspended in
\* session.say, and one greeting call was made.
C11_Witness ==
    /\ Len(enters) = 3
    /\ enters[1].pc = "say"
    /\ enters[2].pc = "done" /\ enters[3].pc = "done"
    /\ Len(greetings) = 1

\* The backend call whose result is r did not succeed: chat returned a failed
\* response or raised.
BackendFailed(r) == ~(r.kind = "return" /\ r.value.success)

\* C12: nothing but StopResponse is ever raised from on_user_turn_completed,
\* and that only after a backend success; on_enter raises nothing; and a turn
\* or greeting whose backend call failed or raised ends with a reply from
\* local generation.
C12_BackendFailuresContained ==
    /\ turn.outcome \in {"none", "return", "StopResponse"}
    /\ turn.outcome = "StopResponse" =>
         (\E r \in turn.backend : ~BackendFailed(r)) /\ turn.spoken # <<>>
    /\ \A r \in turn.backend :
         (turn.pc = "done" /\ BackendFailed(r)) => LocalReplies >= 1
    /\ \A i \in DOMAIN enters :
         /\ enters[i].outcome \in {"none", "return"}
         /\ \A r \in enters[i].backend :
              (enters[i].pc = "done" /\ BackendFailed(r)) =>
                 \E n \in DOMAIN greetings :
                    greetings[n].by = i /\ greetings[n].call = "generate_reply"

\* A greeting and a user turn ended in which backend_client.chat raised: both
\* returned normally and local generation replied.
C12_Witness ==
    /\ use_backend_router
    /\ turn.pc = "done" /\ turn.outcome = "return"
    /\ \E r \in turn.backend : r.kind = "raise"
    /\ LocalReplies >= 1
    /\ enters # <<>>
    /\ enters[1].pc = "done" /\ enters[1].outcome = "return"
    /\ \E r \in enters[1].backend : r.kind = "raise"
    /\ Cardinality(GreetingCalls("generate_reply")) = 1

\* The i-th execution of create_agent_session was scheduled by a connect event
\* and has not run yet.
ScheduledByConnect(i) ==
    /\ i \in DOMAIN creations
    /\ creations[i].origin = "connect"
    /\ creations[i].pc = "scheduled"

\* The i-th execution made its session and agent: session_holder holds the new
\* session and is active, and the agent was given is_reconnection = true.
FreshSessionHeld(i) ==
    /\ i \in DOMAIN creations
    /\ creations[i].pc # "scheduled"
    /\ session_holder[creations[i].job].session = i
    /\ session_holder[creations[i].job].active
    /\ creations[i].is_reconnect

\* C13: when the event loop runs every scheduled task and every awaited start
\* returns, each session creation that a connect event scheduled (active being
\* false and had_active_session true) leads to session_holder holding the new
\* session with active true and an agent made with is_reconnection true, and
\* to the return of its new_session.start.
C13_ReconnectGetsSession ==
    \A i \in 1..MaxCreations :
        /\ ScheduledByConnect(i) ~> FreshSessionHeld(i)
        /\ ScheduledByConnect(i) ~> (i \in DOMAIN creations /\ creations[i].pc = "done")

\* After a disconnect and a connect, the scheduled creation ran and its start
\* returned: the job holds the second session, active, made as a reconnection.
C13_Witness ==
    /\ Len(creations) = 2
    /\ creations[2].origin = "connect"
    /\ creations[2].pc = "done"
    /\ FreshSessionHeld(2)
    /\ session_holder[creations[2].job].session # 1

\* The executions of create_agent_session of job j.
CreationsOf(j) == {i \in DOMAIN creations : creations[i].job = j}

\* C14: when the connect handler processes an event of a non-agent identity, a
\* session creation is scheduled exactly when active is false and
\* had_active_session is true, as a task that has not run yet and with
\* is_reconnect true; otherwise nothing is scheduled; session_holder is left
\* as it was, in particular when active is true.  Every execution of
\* create_agent_session other than the first of its job is scheduled by the
\* connect handler.
C14_ConnectDecisionTable ==
    [][/\ \A j \in Jobs : \A id \in Identities \ {AgentIdentity} :
            ParticipantConnected(j, id) =>
               LET h == session_holder[j]
                   scheduled == Len(creations') = Len(creations) + 1 IN
               /\ scheduled <=> (~h.active /\ h.had_active_session)
               /\ (~h.active /\ ~h.had_active_session) => creations' = creations
               /\ h.active => (creations' = creations /\ session_holder' = session_holder)
               /\ ~scheduled => creations' = creations
               /\ scheduled =>
                    /\ SubSeq(creations', 1, Len(creations)) = creations
                    /\ creations'[Len(creations')].job = j
                    /\ creations'[Len(creations')].pc = "scheduled"
                    /\ creations'[Len(creations')].is_reconnect = TRUE
                    /\ session_holder' = session_holder
       /\ Len(creations') > Len(creations) =>
            LET c == creations'[Len(creations')] IN
            \/ CreationsOf(c.job) = {}
            \/ \E id \in Identities \ {AgentIdentity} : ParticipantConnected(c.job, id)
      ]_vars

\* Job 1 processed a connect event 150 seconds after a disconnect: its second
\* session is scheduled as a reconnection and has not run.
C14_Witness ==
    /\ jobs[1].st = "running" /\ jobs[2].st = "pending"
    /\ now = 150
    /\ _active_sessions[jobs[1].room] =
          [started |-> 0, last_seen |-> 150, participant_connected |-> TRUE]
    /\ session_holder[1] = [session |-> 1, active |-> FALSE, had_active_session |-> TRUE]
    /\ CreationsOf(1) = {1, 2}
    /\ creations[2].origin = "connect"
    /\ creations[2].pc = "scheduled"
    /\ creations[2].is_reconnect

\* The handlers of job j, the room's only job, have processed participant
\* events, and the last one of a non-agent identity was a disconnect: some
\* session was scheduled by a connect event, and the room's record, which only
\* this job writes, says no participant is connected.
LastEventWasDisconnect(j) ==
    /\ jobs[j].st = "running"
    /\ \A k \in Jobs \ {j} : jobs[k].st = "pending"
    /\ \E i \in CreationsOf(j) : creations[i].origin = "connect"
    /\ ~_active_sessions[jobs[j].room].participant_connected

\* C15: whenever the participant event that a job's handlers processed last is
\* the disconnect of a non-agent participant, the job's session_holder is not
\* active, also when a session scheduled by an earlier connect event ran after
\* that disconnect.
C15_ActiveTracksDisconnects ==
    \A j \in Jobs : LastEventWasDisconnect(j) => ~session_holder[j].active

\* The executions of create_agent_session are the same before and after the
\* step: none is added, run, resumed or given another argument.
CreationsUntouched ==
    /\ Len(creations') = Len(creations)
    /\ \A i \in DOMAIN creations :
         /\ creations'[i].job = creations[i].job
         /\ creations'[i].origin = creations[i].origin
         /\ creations'[i].pc = creations[i].pc
         /\ creations'[i].is_reconnect = creations[i].is_reconnect

\* C16: the disconnect handler, for a non-agent identity, sets active false,
\* the room record's last_seen to the current time and participant_connected
\* false, and nothing else: the record's started, session_holder's session and
\* had_active_session, the other jobs' holders, the session creations (none is
\* scheduled, and no session is touched) and the routing client with its
\* pooled HTTP session are as before.
C16_DisconnectFrame ==
    [][\A j \in Jobs : \A id \in Identities \ {AgentIdentity} :
          ParticipantDisconnected(j, id) =>
             LET room == jobs[j].room IN
             /\ session_holder'[j].active = FALSE
             /\ session_holder'[j].session = session_holder[j].session
             /\ session_holder'[j].had_active_session =
                   session_holder[j].had_active_session
             /\ \A k \in Jobs \ {j} : session_holder'[k] = session_holder[k]
             /\ DOMAIN _active_sessions' = DOMAIN _active_sessions
             /\ _active_sessions'[room].last_seen = now
             /\ _active_sessions'[room].participant_connected = FALSE
             /\ _active_sessions'[room].started = _active_sessions[room].started
             /\ CreationsUntouched
             /\ clientVars' = clientVars
             /\ now' = now]_vars

\* A participant left 150 seconds after the job started, while the initial
\* session was still starting: active is false, the session is still held.
C16_Witness ==
    /\ jobs[1].st = "running" /\ jobs[2].st = "pending"
    /\ session_holder[1] = [session |-> 1, active |-> FALSE, had_active_session |-> TRUE]
    /\ now = 150
    /\ _active_sessions[jobs[1].room] =
          [started |-> 0, last_seen |-> 150, participant_connected |-> FALSE]
    /\ Len(creations) = 1
    /\ creations[1].pc = "start"

\* C17: an event whose identity is the agent's own, processed by either
\* handler, changes neither the room records nor any session_holder nor the
\* session creations (none is scheduled or run).
C17_AgentIdentityFiltered ==
    [][\A j \in Jobs :
          (\/ ParticipantConnected(j, AgentIdentity)
           \/ ParticipantDisconnected(j, AgentIdentity)) =>
             /\ _active_sessions' = _active_sessions
             /\ session_holder' = session_holder
             /\ CreationsUntouched
             /\ jobs' = jobs
             /\ now' = now]_vars

\* The agent's own disconnect event was processed after a participant's
\* connect event had scheduled a session: the record still says a participant
\* is connected, and the creation is still scheduled.
C17_Witness ==
    /\ jobs[1].st = "running" /\ jobs[2].st = "pending"
    /\ Len(creations) = 2
    /\ creations[2].origin = "connect"
    /\ creations[2].pc = "scheduled"
    /\ ~creations[2].sinceDisconnect
    /\ _active_sessions[jobs[1].room].participant_connected
    /\ ~session_holder[1].active

\* The canned greeting instructions as the claim gives them: welcome-back for
\* a reconnection, introduction otherwise.
CannedGreeting ==
    IF agent.is_reconnection
    THEN "Welcome the user back briefly. They just reconnected after a brief interruption. Ask how you can help them."
    ELSE "Greet the user warmly and let them know you're AImee, their AI tour guide assistant, ready to help with location information and travel guidance. Ask what you should call them."

\* The first invocation of on_enter has returned.
FirstEnterDone == enters # <<>> /\ enters[1].pc = "done"

\* What the first on_enter does about the backend: with routing on, one chat
\* call carrying the system message for the agent's is_reconnection, the two
\* messages being different; with routing off, no call.
GreetingAsksBackendOnce ==
    /\ GreetingSystemMessage(TRUE) # GreetingSystemMessage(FALSE)
    /\ use_backend_router =>
         /\ callCount = 1 /\ requests = 1
         /\ lastCall.op = "chat"
         /\ enters[1].backend = {lastCall.result}
         /\ enters[1].system_message = GreetingSystemMessage(agent.is_reconnection)
    /\ ~use_backend_router =>
         /\ callCount = 0 /\ requests = 0
         /\ enters[1].backend = None

\* C18 as claimed: after the first on_enter, a backend success gave exactly
\* one session.say of the backend's text and no session.generate_reply;
\* routing off, a failed response or an exception gave exactly one
\* session.generate_reply with the canned instructions and no session.say.
C18_AsClaimed ==
    FirstEnterDone =>
        /\ GreetingAsksBackendOnce
        /\ \A r \in enters[1].backend :
             ~BackendFailed(r) => greetings = <<Greeting(1, "say", r.value.response)>>
        /\ (~use_backend_router \/ \E r \in enters[1].backend : BackendFailed(r)) =>
             greetings = <<Greeting(1, "generate_reply", CannedGreeting)>>

\* C18, amended: as claimed when the awaited session.say returns; when it
\* raises after a backend success, the one session.say is followed by exactly
\* one session.generate_reply with the canned instructions.
C18_GreetingChoice ==
    FirstEnterDone =>
        /\ GreetingAsksBackendOnce
        /\ \A r \in enters[1].backend :
             ~BackendFailed(r) =>
                greetings =
                   IF enters[1].say_raised
                   THEN <<Greeting(1, "say", r.value.response),
                          Greeting(1, "generate_reply", CannedGreeting)>>
                   ELSE <<Greeting(1, "say", r.value.response)>>
        /\ (~use_backend_router \/ \E r \in enters[1].backend : BackendFailed(r)) =>
             /\ greetings = <<Greeting(1, "generate_reply", CannedGreeting)>>
             /\ ~enters[1].say_raised

\* A reconnection agent greeted after the backend answered HTTP 500: one
\* welcome-back session.generate_reply.
C18_Witness ==
    /\ FirstEnterDone
    /\ agent.is_reconnection
    /\ use_backend_router
    /\ lastCall.outcome.kind = "reply" /\ lastCall.outcome.status = 500
    /\ Len(greetings) = 1
    /\ greetings[1].call = "generate_reply"
    /\ greetings[1].arg = "Welcome the user back briefly. They just reconnected after a brief interruption. Ask how you can help them."

\* C19: with use_backend_router false, a turn makes no call of the backend
\* client and issues no request, calls neither session.say nor
\* session.generate_reply, leaves the message text as it was, and calls the
\* base class's on_user_turn_completed exactly once.
C19_PassThrough ==
    ~use_backend_router =>
        /\ callCount = 0 /\ requests = 0 /\ _session = 0
        /\ turn.backend = None
        /\ turn.sayCalls = 0 /\ turn.spoken = <<>>
        /\ turn.generateReplyCalls = 0
        /\ turn.text = turn.user_input
        /\ turn.pc # "idle" =>
             /\ turn.superCalls = 1
             /\ turn.pc \in {"super", "returned", "done"}
             /\ turn.outcome \in {"none", "return"}

\* Two turns were passed through; the second ended with the session's own
\* reply.
C19_Witness ==
    /\ ~use_backend_router
    /\ turns = 2
    /\ turn.pc = "done"
    /\ turn.superCalls = 1
    /\ turn.defaultReplies = 1
    /\ turn.text = "Where am I?"

\* C20: with routing on, every turn whose backend call has ended made exactly
\* one chat call, which issued exactly one HTTP request, whatever the outcome:
\* the calls and the requests made so far both equal the number of such turns.
C20_NoRetry ==
    use_backend_router =>
        LET ended == IF turn.pc \in {"idle", "chat"} THEN turns - 1 ELSE turns IN
        /\ turn.pc = "idle" => (callCount = 0 /\ requests = 0)
        /\ turn.pc # "idle" => (callCount = ended /\ requests = ended)
        /\ turn.pc \notin {"idle", "chat"} => Cardinality(turn.backend) = 1

\* Two turns ended in local fallback after the backend failed: two chat calls
\* and two requests in all.
C20_Witness ==
    /\ use_backend_router
    /\ turns = 2
    /\ turn.pc = "done"
    /\ \E r \in turn.backend : BackendFailed(r)
    /\ lastCall.outcome = Fault("asyncio.TimeoutError")
    /\ callCount = 2
    /\ requests = 2

\* A step of entrypoint for job j: the job starts to run.
EntrypointStep(j) == jobs[j].st = "pending" /\ jobs'[j].st = "running"

\* C21: every entrypoint invocation leaves its room's record as started =
\* last_seen = now and participant_connected = false, whatever the record was;
\* every connect or disconnect event of a non-agent identity sets the record's
\* last_seen to the current time; after every step every record has
\* last_seen >= started; and no record is ever removed, so the room of every
\* running job has one.
C21_RecordMaintenance ==
    [][/\ \A j \in Jobs :
            EntrypointStep(j) =>
               /\ jobs'[j].room \in DOMAIN _active_sessions'
               /\ _active_sessions'[jobs'[j].room] =
                     [started |-> now, last_seen |-> now,
                      participant_connected |-> FALSE]
       /\ \A j \in Jobs : \A id \in Identities \ {AgentIdentity} :
            (ParticipantConnected(j, id) \/ ParticipantDisconnected(j, id)) =>
               _active_sessions'[jobs[j].room].last_seen = now
       /\ \A r \in DOMAIN _active_sessions' :
            _active_sessions'[r].last_seen >= _active_sessions'[r].started
       /\ DOMAIN _active_sessions \subseteq DOMAIN _active_sessions'
       /\ \A j \in Jobs :
            jobs'[j].st = "running" => jobs'[j].room \in DOMAIN _active_sessions'
      ]_vars

\* A second entrypoint invocation overwrote the room's record at 150 seconds,
\* and a participant event at 300 seconds moved last_seen.
C21_Witness ==
    /\ jobs[1].st = "running" /\ jobs[2].st = "running"
    /\ now = 300
    /\ _active_sessions[jobs[2].room] =
          [started |-> 150, last_seen |-> 300, participant_connected |-> TRUE]

\* Another entrypoint invocation for the same room is running when job j
\* starts for `room`.
Overlaps(j, room) ==
    \E k \in Jobs \ {j} : jobs[k].st = "running" /\ jobs[k].room = room

\* C22 as claimed: of two entrypoint invocations for one room that overlap,
\* the process having started with no record of the room, at most one is
\* classified NEW.
C22_AsClaimed ==
    \A j, k \in Jobs :
        (/\ j # k
         /\ jobs[j].st = "running" /\ jobs[k].st = "running"
         /\ jobs[j].room = jobs[k].room)
        => (jobs[j].is_reconnection \/ jobs[k].is_reconnection)

\* C22, amended: the lookup, the classification and the overwrite are one
\* step.  An entrypoint invocation that starts while another one for the same
\* room is running finds that one's record, and is classified RECONNECTION
\* exactly when it starts less than 300 seconds after the record's last_seen
\* (NEW otherwise); the invocation that finds no record is classified NEW; and
\* the step leaves its own record in place for the next invocation to find.
C22_AtomicClassifyAndRecord ==
    [][\A j \in Jobs :
          EntrypointStep(j) =>
             LET room == jobs'[j].room IN
             /\ Overlaps(j, room) =>
                  /\ room \in DOMAIN _active_sessions
                  /\ jobs'[j].is_reconnection =
                        (now - _active_sessions[room].last_seen < 300)
             /\ room \notin DOMAIN _active_sessions =>
                  (~jobs'[j].is_reconnection /\ ~Overlaps(j, room))
             /\ room \in DOMAIN _active_sessions'
             /\ _active_sessions'[room].last_seen = now
             /\ now' = now]_vars

\* Two overlapping invocations for one room, the second started 150 seconds
\* after the first: the first is NEW, the second a RECONNECTION.
C22_Witness ==
    /\ jobs[1].st = "running" /\ jobs[2].st = "running"
    /\ jobs[1].room = jobs[2].room
    /\ ~jobs[1].is_reconnection
    /\ jobs[2].is_reconnection
    /\ _active_sessions[jobs[2].room].started = 150

\* The ClientSession objects made so far that are not closed, after the step.
OpenSessionsAfter == {n \in 1.._session' : n \notin closedSessions'}

\* The call made in this step is one that sends a request: health_check, or
\* chat or arrival of an enabled client.
RequestingCall ==
    /\ CallMade
    /\ \/ lastCall'.op = "health_check"
       \/ enabled /\ lastCall'.op \in {"chat", "arrival"}

\* C23: the client has no pooled session exactly as long as no request was
\* sent; a call that sends a request keeps the pooled session when it is open,
\* and makes a new one when there is none or it is closed, so that it always
\* ends with an open pooled session, also right after a close; no other call
\* replaces the session; and at most one of the sessions made is open.
C23_PooledSessionLifecycle ==
    [][CallMade =>
         LET wasOpen == _session # 0 /\ _session \notin closedSessions IN
         /\ (_session' = 0) <=> (requests' = 0)
         /\ (RequestingCall /\ wasOpen) => _session' = _session
         /\ (RequestingCall /\ ~wasOpen) =>
               (_session' # _session /\ _session' \notin closedSessions)
         /\ RequestingCall => (_session' # 0 /\ _session' \notin closedSessions')
         /\ ~RequestingCall => _session' = _session
         /\ Cardinality(OpenSessionsAfter) <= 1]_vars

\* A chat call directly after a close obtained a second, open session.
C23_Witness ==
    /\ enabled
    /\ lastCall.op = "chat" /\ lastCall.prev = "close"
    /\ _session = 2
    /\ closedSessions = {1}
    /\ requests = 2

\* C24: every invocation of on_exit makes one call of the client's close,
\* which returns, and leaves the client with its pooled session closed, or
\* with none if none was ever opened; the session is not replaced.  This is so
\* with routing on and off, and before, during and after the agent's turns.
C24_ExitClosesClient ==
    [][agent'.exits > agent.exits =>
         /\ callCount' = callCount + 1
         /\ lastCall'.op = "close"
         /\ lastCall'.result = Return(None)
         /\ _session' = _session
         /\ _session = 0 \/ _session \in closedSessions'
         /\ requests' = requests]_vars

\* An agent that had routed a turn through the backend was exited twice: the
\* pooled session the turn opened is closed, once.
C24_Witness ==
    /\ agent.exits = 2
    /\ use_backend_router
    /\ turns = 1
    /\ requests = 1
    /\ _session = 1
    /\ closedSessions = {1}
    /\ sessionCloses = 1
    /\ lastCall.op = "close" /\ lastCall.prev = "close"

\* C25: every BackendResponse that chat or arrival returns has an error exactly
\* when success is false, and an empty response text when success is false.
C25_WellFormedResponse ==
    (lastCall.op \in {"chat", "arrival"} /\ lastCall.result.kind = "return") =>
        LET r == lastCall.result.value IN
        /\ (r.error # None) <=> ~r.success
        /\ ~r.success => r.response = ""

\* C26: arrival never raises and, for every outcome of the request, returns
\* the success value and the agent tag that chat returns for that outcome; in
\* particular the tag is "timeout" when the request times out and
\* "network_error" when it meets a network fault.
C26_ArrivalClassifiesAsChat ==
    lastCall.op = "arrival" =>
        LET o == lastCall.outcome
            c == chat(enabled, o) IN
        /\ lastCall.result.kind = "return"
        /\ c.kind = "return" =>
             /\ lastCall.result.value.success = c.value.success
             /\ lastCall.result.value.agent = c.value.agent
        /\ (enabled /\ o = Fault("asyncio.TimeoutError")) =>
             lastCall.result.value.agent = "timeout"
        /\ (enabled /\ o = Fault("aiohttp.ClientConnectorError")) =>
             lastCall.result.value.agent = "network_error"

\* C27: in every state of every room invocation an active holder has
\* had_active_session true and a session; a holder has a session exactly when
\* had_active_session is true; had_active_session never goes back to false;
\* and no step leaves a holder partly updated: whenever the session changes,
\* or active turns true, the holder has after that same step the new session,
\* active true and had_active_session true.
C27_HolderConsistent ==
    \A j \in Jobs :
        LET h == session_holder[j] IN
        /\ h.active => (h.had_active_session /\ h.session # 0)
        /\ (h.session # 0) <=> h.had_active_session

C27_SessionHolder ==
    /\ []C27_HolderConsistent
    /\ [][\A j \in Jobs :
            LET h  == session_holder[j]
                h2 == session_holder'[j] IN
            /\ h.had_active_session => h2.had_active_session
            /\ (h2.session # h.session \/ (~h.active /\ h2.active)) =>
                 /\ h2.session # h.session
                 /\ h2.session # 0
                 /\ h2.active
                 /\ h2.had_active_session]_vars

\* A job whose participant left and came back: the holder carries the second
\* session of the job, active, while create_agent_session is suspended in
\* new_session.start, where event callbacks can run.
C27_Witness ==
    \E j \in Jobs :
        LET h == session_holder[j] IN
        /\ h.session \in DOMAIN creations
        /\ creations[h.session].job = j
        /\ creations[h.session].origin = "connect"
        /\ creations[h.session].pc = "start"
        /\ h.active /\ h.had_active_session
        /\ \E i \in DOMAIN creations : i < h.session /\ creations[i].job = j

====
